---- MODULE Spec2Model ----
(***************************************************************************)
(* Local-first synchronisation of the budget tracker: the AppProvider      *)
(* state (src/pages/Settings.tsx, AppContext part), the cloudDrive service *)
(* (src/services/cloudDrive.ts) and the local storage wrapper              *)
(* (src/services/storage.ts).                                              *)
(*                                                                         *)
(* Timestamps are positive integers (the ISO strings of the code, ordered  *)
(* as new Date(s).getTime() orders them); Null stands for null.            *)
(***************************************************************************)
EXTENDS Integers, Sequences, FiniteSets, TLC

\* ---------------------------------------------------------------- bounds
MaxTime == 3
MaxTxId == 4
MaxTx == 2
MaxItems == 2
MaxEdits == 1
MaxRemoteWrites == 1
MaxReloads == 1
MaxLost == 1
MaxAuto == 1

\* ------------------------------------------------------ program constants
MAX_PAYLOAD_SIZE_BYTES == 6 * 1024 * 1024

\* -------------------------------------------------------------- domains
Null == 0
TxIds == 1..MaxTxId
NoUser == "nobody"
TheUser == "u1"
Personal == "personal"
WalletIds == {"w1"}
NoCategory == -1
Names == {"a", "b"}
AutoBackupModes == {"off", "daily", "weekly"}
Themes == {"light", "dark"}
Fields == {"transactions", "accounts", "categories", "settings", "budget", "categoryBudgets"}

INITIAL_ACCOUNTS == << [id |-> 0, name |-> "a"] >>
INITIAL_CATEGORIES == << [id |-> 0, name |-> "a"] >>
DEFAULT_SETTINGS == [autoBackup |-> "off", theme |-> "light"]

\* ------------------------------------------------------------- sequences
RECURSIVE SumSeq(_)
SumSeq(s) == IF s = << >> THEN 0 ELSE s[1] + SumSeq(Tail(s))


\* ------------------------------------------------------- payload sizes
\* JSON.stringify(appData) measured in bytes: the envelope of the six keys
\* plus what each element of the arrays serializes to.
EnvelopeBytes == 256
ItemBytes == 64
SmallBody == 128
TxBytes(t) == t.body + t.note
JsonBytes(appData) ==
  EnvelopeBytes
  + SumSeq([i \in 1..Len(appData.transactions) |-> TxBytes(appData.transactions[i])])
  + ItemBytes * (Len(appData.accounts) + Len(appData.categories)
                 + Len(appData.categoryBudgets))

\* ----------------------------------------------------------- remote rows
NoRow == [exists |-> FALSE]

\* A data blob as stored remotely: has names the keys present in the JSON
\* object, a key that is absent holds the empty value of its type here.
Blob(has, snap) ==
  [has |-> has,
   transactions |-> IF "transactions" \in has THEN snap.transactions ELSE << >>,
   accounts |-> IF "accounts" \in has THEN snap.accounts ELSE << >>,
   categories |-> IF "categories" \in has THEN snap.categories ELSE << >>,
   settings |-> IF "settings" \in has THEN snap.settings ELSE DEFAULT_SETTINGS,
   budget |-> IF "budget" \in has THEN snap.budget ELSE 0,
   categoryBudgets |-> IF "categoryBudgets" \in has THEN snap.categoryBudgets ELSE << >>]

BackupRow(data, clientTime, updatedAt) ==
  [exists |-> TRUE, data |-> data,
   metadata |-> [timestamp |-> clientTime, items_count |-> Len(data.transactions)],
   updated_at |-> updatedAt]

\* What another session of the same owner, or another member of a wallet,
\* may have stored
OtherTx(id) == [id |-> id, categoryId |-> NoCategory, note |-> 0,
                body |-> SmallBody, isPendingSync |-> FALSE]
OtherSnapshot(b) ==
  [transactions |-> << OtherTx(1), OtherTx(MaxTxId) >>,
   accounts |-> << [id |-> 0, name |-> "b"] >>,
   categories |-> << [id |-> 0, name |-> "b"] >>,
   settings |-> [autoBackup |-> "daily", theme |-> "dark"],
   budget |-> b,
   categoryBudgets |-> << [categoryId |-> 0, amount |-> 1] >>]
OtherBlobs ==
  {Blob(Fields, OtherSnapshot(b)) : b \in {0, 2}}
  \cup {Blob(Fields \ {f}, OtherSnapshot(2)) : f \in Fields}
WalletFields == {"transactions", "accounts", "categories", "budget"}
WalletRows ==
  {NoRow} \cup
  {[exists |-> TRUE, data |-> Blob(has, OtherSnapshot(2))] :
     has \in {WalletFields, WalletFields \ {"accounts"}}}

\* ------------------------------------------------------------ async calls
Controls == {"settings", "prompt"}
\* who may have a restoreBackup call running: the two controls, and any
\* other consumer of the context that calls restoreBackup itself
Callers == Controls \cup {"context"}
Strategies == {"merge", "replace", "skip"}
NoReq == [data |-> Blob({}, OtherSnapshot(0)), clientTime |-> Null]
IdleCall == [phase |-> "idle", req |-> NoReq, echo |-> Null]
IdleRestore == [phase |-> "idle", strategy |-> "skip", localIds |-> {}]

\* ------------------------------------------------- wallets and memberships
\* the user of this session, the owner of a wallet shared with them, and a
\* third registered user
AllUsers == {TheUser, "u2", "u3"}
OtherOwner == "u2"
NoWallet == "none"
Member(w, u, role) == [wallet_id |-> w, user_id |-> u, role |-> role]
WalletRow(w, u) == [id |-> w, created_by |-> u]
IdleWalletCall == [phase |-> "idle", id |-> NoWallet]
ClosedView == [id |-> NoWallet, activeMembers |-> {}]

\* ---------------------------------------------------------------- state
VARIABLES
  transactions,      \* useState<Transaction[]>
  accounts,          \* useState<Account[]>
  categories,        \* useState<Category[]>
  settings,          \* useState<AppSettings>
  budget,            \* useState<number>
  categoryBudgets,   \* useState<CategoryBudget[]>
  syncState,         \* useState<SyncState>
  store,             \* localStorage, by STORAGE_KEYS
  navOnline,         \* navigator.onLine
  session,           \* the auth provider holds a session for TheUser
  now,               \* the client clock
  backups,           \* the BackupRecord row of TheUser in the remote store
  walletData,        \* the WalletDataRecord rows, by wallet id
  bk,                \* the manual backup call of the Settings page
  lost,              \* upsert requests the client no longer waits for
  chk,               \* the checkCloudBackup call
  rs,                \* the restoreBackup calls, by the control that started them
  sw,                \* the switchWallet calls awaiting getWalletData
  ui,                \* isBackingUp / isRestoring / isProcessing
  last,              \* the handler step taken last
  edits,             \* number of local edits so far
  writes,            \* number of backups by other sessions so far
  reloads,           \* number of app reloads so far
  baseline,          \* the personal working set when a wallet was entered
  walletRows,        \* the rows of the wallets table
  members,           \* the rows of the wallet members table
  minted,            \* wallet ids the row store has given out
  wallets,           \* useState<Wallet[]>, the wallet list of this session
  cw,                \* the createWallet call
  dw,                \* the deleteWallet call
  view,              \* viewingMembersWalletId and activeMembers
  ab                 \* the backupUserData calls of the auto-backup effect

vars == << transactions, accounts, categories, settings, budget, categoryBudgets,
           syncState, store, navOnline, session, now, backups, walletData,
           bk, lost, chk, rs, sw, ui, last, edits, writes, reloads, baseline,
           walletRows, members, minted, wallets, cw, dw, view, ab >>

working == << transactions, accounts, categories, settings, budget, categoryBudgets >>
remote == << backups, walletData >>
calls == << bk, lost, chk, rs, sw, ui >>
counters == << edits, writes, reloads, baseline >>
sharing == << walletRows, members, minted, wallets, cw, dw, view >>

\* The Snapshot handed to backup (Settings.tsx 2199-2201)
Snapshot == [transactions |-> transactions, accounts |-> accounts,
             categories |-> categories, settings |-> settings,
             budget |-> budget, categoryBudgets |-> categoryBudgets]

\* ------------------------------------------------------------- storage
\* The persistence effects: each piece of state is written back under its
\* key after the render that follows the handler.  UNSYNCED_CHANGES has no
\* effect of its own; only markAsDirty writes it.
Persisted ==
  [store EXCEPT !.transactions = transactions',
                !.accounts = accounts',
                !.categories = categories',
                !.settings = settings',
                !.budget = budget',
                !.categoryBudgets = categoryBudgets',
                !.activeWalletId = syncState'.activeWalletId,
                !.lastSync = syncState'.lastSync]

PersistEffects == store' = Persisted

\* markAsDirty, together with the persistence effects of the same render
MarkAsDirty ==
  /\ syncState' = [syncState EXCEPT !.unsyncedChanges = TRUE]
  /\ store' = [Persisted EXCEPT !.unsyncedChanges = TRUE]

\* steps that change neither the working data nor the backup row and call
\* no restore
QuietOps == {"login", "logout", "checkRespond", "sessionRestored",
             "offline", "online", "tick", "otherMemberSync"}

\* Where a run of merges stands after the step: "first" while a merge is
\* under way, "once" when it has succeeded with no edit, backup or other
\* restore since it was called, "again" while the merge called next is
\* under way, "twice" when that one has succeeded as well
MergeRun(op, arg, res) ==
  IF op = "restoreStart" /\ arg = "merge" /\ res = "sent"
  THEN (IF last.run \in {"once", "twice"} THEN "again" ELSE "first")
  ELSE IF op = "restoreRespond" /\ arg = "merge" /\ res = "true"
  THEN (IF last.run = "first" THEN "once"
        ELSE IF last.run = "again" THEN "twice" ELSE "none")
  ELSE IF op \in QuietOps THEN last.run
  ELSE "none"

\* the handler step taken last: what ran, on what, and how it ended
Event(op, arg, res) ==
  [op |-> op, arg |-> arg, res |-> res, run |-> MergeRun(op, arg, res)]

Init ==
  /\ transactions = << >>
  /\ accounts = INITIAL_ACCOUNTS
  /\ categories = INITIAL_CATEGORIES
  /\ settings = DEFAULT_SETTINGS
  /\ budget = 0
  /\ categoryBudgets = << >>
  /\ syncState = [isLoggedIn |-> FALSE, user |-> NoUser, lastSync |-> Null,
                  pendingRestoreAvailable |-> FALSE, isOnline |-> TRUE,
                  unsyncedChanges |-> FALSE, activeWalletId |-> Personal]
  /\ store = [transactions |-> << >>, accounts |-> INITIAL_ACCOUNTS,
              categories |-> INITIAL_CATEGORIES, settings |-> DEFAULT_SETTINGS,
              budget |-> 0, categoryBudgets |-> << >>,
              lastSync |-> Null, activeWalletId |-> Personal,
              unsyncedChanges |-> FALSE]
  /\ navOnline = TRUE
  /\ session = FALSE
  /\ now = 1
  /\ backups = NoRow
  /\ walletData = [w \in WalletIds |-> NoRow]
  /\ bk = IdleCall
  /\ lost = {}
  /\ chk = "idle"
  /\ rs = [c \in Callers |-> IdleRestore]
  /\ sw = {}
  /\ ui = [isBackingUp |-> FALSE, isRestoring |-> FALSE, isProcessing |-> FALSE]
  /\ last = [op |-> "init", arg |-> "", res |-> "", run |-> "none"]
  /\ edits = 0
  /\ writes = 0
  /\ reloads = 0
  /\ baseline = [known |-> FALSE]
  /\ walletRows = {}
  /\ members = {}
  /\ minted = {}
  /\ wallets = {}
  /\ cw = IdleWalletCall
  /\ dw = IdleWalletCall
  /\ view = ClosedView
  /\ ab = {}

\* ------------------------------------------------------- local mutations
OtherIds == {1, MaxTxId}

\* ids that exist anywhere; crypto.randomUUID() returns none of them
UsedTxIds ==
  LET idsOf(txs) == {txs[i].id : i \in 1..Len(txs)}
  IN idsOf(transactions) \cup idsOf(store.transactions)
     \cup (IF backups.exists THEN idsOf(backups.data.transactions) ELSE {})
     \cup idsOf(bk.req.data.transactions)
     \cup UNION {idsOf(r.data.transactions) : r \in lost}

FreshTxIds == (TxIds \ OtherIds) \ UsedTxIds

\* crypto.randomUUID(): one fresh id stands for them all
RandomUUID == CHOOSE id \in FreshTxIds : \A other \in FreshTxIds : id <= other

TxInputs == [categoryId : {0}, note : {0}, body : {SmallBody}]

\* how large the new transaction is: small, or as large as makes the payload
\* exactly MAX_PAYLOAD_SIZE_BYTES, or one byte more
Fills == {"small", "exact", "over"}

\* what a local edit leaves alone
EditFrame(op, arg) ==
  /\ edits < MaxEdits
  /\ edits' = edits + 1
  /\ last' = Event(op, arg, "")
  /\ baseline' = [known |-> FALSE]
  /\ UNCHANGED << navOnline, session, now, sharing, ab, remote, calls, writes, reloads >>

AddTransaction ==
  \E tData \in TxInputs, fill \in Fills :
    LET id == RandomUUID
        room == MAX_PAYLOAD_SIZE_BYTES - JsonBytes(Snapshot) - tData.note
        newTx == [id |-> id, categoryId |-> tData.categoryId, note |-> tData.note,
                  body |-> IF fill = "small" \/ room <= 0 THEN tData.body
                           ELSE IF fill = "exact" THEN room ELSE room + 1,
                  isPendingSync |-> TRUE]
    IN /\ Len(transactions) < MaxTx
       /\ FreshTxIds # {}
       /\ transactions' = << newTx >> \o transactions
       /\ UNCHANGED << accounts, categories, settings, budget, categoryBudgets >>
       /\ MarkAsDirty
       /\ EditFrame("addTransaction", "")

UpdateTransaction ==
  \E tData \in TxInputs, id \in TxIds :
    LET data == [id |-> id, categoryId |-> tData.categoryId, note |-> tData.note,
                 body |-> tData.body, isPendingSync |-> FALSE]
    IN /\ transactions' = [i \in 1..Len(transactions) |->
                              IF transactions[i].id = data.id
                              THEN [data EXCEPT !.isPendingSync = TRUE]
                              ELSE transactions[i]]
       /\ UNCHANGED << accounts, categories, settings, budget, categoryBudgets >>
       /\ MarkAsDirty
       /\ EditFrame("updateTransaction", "")

DeleteTransaction ==
  \E id \in TxIds :
    /\ transactions' = SelectSeq(transactions, LAMBDA t : t.id # id)
    /\ UNCHANGED << accounts, categories, settings, budget, categoryBudgets >>
    /\ MarkAsDirty
    /\ EditFrame("deleteTransaction", "")

ImportTransactions ==
  \E txs \in {<< OtherTx(id) >> : id \in {1, 2}} :
    /\ Len(transactions) + Len(txs) <= MaxTx
    /\ transactions' = transactions \o txs
    /\ UNCHANGED << accounts, categories, settings, budget, categoryBudgets >>
    /\ MarkAsDirty
    /\ EditFrame("importTransactions", "")

AddAccount ==
  \E name \in Names :
    /\ Len(accounts) < MaxItems
    /\ accounts' = Append(accounts, [id |-> now, name |-> name])
    /\ UNCHANGED << transactions, categories, settings, budget, categoryBudgets >>
    /\ MarkAsDirty
    /\ EditFrame("addAccount", "")

UpdateAccountName ==
  \E id \in 0..MaxTime, name \in Names :
    /\ accounts' = [i \in 1..Len(accounts) |->
                      IF accounts[i].id = id
                      THEN [accounts[i] EXCEPT !.name = name]
                      ELSE accounts[i]]
    /\ UNCHANGED << transactions, categories, settings, budget, categoryBudgets >>
    /\ MarkAsDirty
    /\ EditFrame("updateAccountName", "")

DeleteAccount ==
  \E id \in 0..MaxTime :
    /\ accounts' = SelectSeq(accounts, LAMBDA a : a.id # id)
    /\ UNCHANGED << transactions, categories, settings, budget, categoryBudgets >>
    /\ MarkAsDirty
    /\ EditFrame("deleteAccount", "")

AddCategory ==
  \E name \in Names :
    /\ Len(categories) < MaxItems
    /\ categories' = Append(categories, [id |-> now, name |-> name])
    /\ UNCHANGED << transactions, accounts, settings, budget, categoryBudgets >>
    /\ MarkAsDirty
    /\ EditFrame("addCategory", "")

UpdateCategory ==
  \E c \in [id : 0..MaxTime, name : Names] :
    /\ categories' = [i \in 1..Len(categories) |->
                        IF categories[i].id = c.id THEN c ELSE categories[i]]
    /\ UNCHANGED << transactions, accounts, settings, budget, categoryBudgets >>
    /\ MarkAsDirty
    /\ EditFrame("updateCategory", "")

\* note: t.note ? `${t.note} (Uncategorized)` : '(Uncategorized)'
Uncategorize(t) ==
  [t EXCEPT !.categoryId = NoCategory,
            !.note = IF t.note # 0 THEN t.note + 16 ELSE 15]

DeleteCategory ==
  \E id \in 0..MaxTime :
    /\ categories' = SelectSeq(categories, LAMBDA c : c.id # id)
    /\ transactions' = [i \in 1..Len(transactions) |->
                          IF transactions[i].categoryId = id
                          THEN Uncategorize(transactions[i])
                          ELSE transactions[i]]
    /\ UNCHANGED << accounts, settings, budget, categoryBudgets >>
    /\ MarkAsDirty
    /\ EditFrame("deleteCategory", "")

UpdateBudget ==
  \E amount \in {0, 1} :
    /\ budget' = amount
    /\ UNCHANGED << transactions, accounts, categories, settings, categoryBudgets >>
    /\ MarkAsDirty
    /\ EditFrame("updateBudget", "")

UpdateCategoryBudget ==
  \E catId \in {0}, amount \in {1, 2} :
    /\ categoryBudgets' =
         IF \E i \in 1..Len(categoryBudgets) : categoryBudgets[i].categoryId = catId
         THEN [i \in 1..Len(categoryBudgets) |->
                 IF categoryBudgets[i].categoryId = catId
                 THEN [categoryBudgets[i] EXCEPT !.amount = amount]
                 ELSE categoryBudgets[i]]
         ELSE Append(categoryBudgets, [categoryId |-> catId, amount |-> amount])
    /\ UNCHANGED << transactions, accounts, categories, settings, budget >>
    /\ MarkAsDirty
    /\ EditFrame("updateCategoryBudget", "")

\* updateSettings(s: Partial<AppSettings>): { ...prev, ...s }
UpdateSettings ==
  \E s \in {[autoBackup |-> m] : m \in AutoBackupModes}
            \cup {[theme |-> th] : th \in Themes} :
    /\ settings' =
         [autoBackup |-> IF "autoBackup" \in DOMAIN s
                         THEN s.autoBackup ELSE settings.autoBackup,
          theme |-> IF "theme" \in DOMAIN s THEN s.theme ELSE settings.theme]
    /\ UNCHANGED << transactions, accounts, categories, budget, categoryBudgets >>
    /\ MarkAsDirty
    /\ EditFrame("updateSettings", "")

\* ------------------------------------------------------------ environment
Tick ==
  /\ now < MaxTime
  /\ now' = now + 1
  /\ last' = Event("tick", "", "")
  /\ UNCHANGED << working, syncState, store, navOnline, session, sharing, ab, remote, calls, counters >>

\* window 'offline' / 'online' events
GoOffline ==
  /\ navOnline
  /\ navOnline' = FALSE
  /\ syncState' = [syncState EXCEPT !.isOnline = FALSE]
  /\ last' = Event("offline", "", "")
  /\ UNCHANGED << working, store, session, now, sharing, ab, remote, calls, counters >>

GoOnline ==
  /\ ~navOnline
  /\ navOnline' = TRUE
  /\ syncState' = [syncState EXCEPT !.isOnline = TRUE]
  /\ last' = Event("online", "", "")
  /\ UNCHANGED << working, store, session, now, sharing, ab, remote, calls, counters >>

\* The update time the row store may give a row sent at clientTime: the
\* time proposed, or the reading of its own clock, which may be ahead
OtherStamps(clientTime) == {t \in 1..MaxTime : clientTime <= t /\ t <= clientTime + 1}

\* Another session of the same owner upserts its own snapshot
OtherSessionBackup ==
  \E data \in OtherBlobs, stamp \in OtherStamps(now) :
    /\ writes < MaxRemoteWrites
    /\ writes' = writes + 1
    /\ backups' = BackupRow(data, now, stamp)
    /\ last' = Event("otherSessionBackup", "", "")
    /\ UNCHANGED << working, syncState, store, navOnline, session, now, sharing, ab, walletData,
                    calls, edits, reloads, baseline >>

\* A member of the wallet stores the wallet's data (syncWalletData)
OtherMemberSync ==
  \E id \in WalletIds, row \in WalletRows \ {NoRow} :
    /\ walletData[id] # row
    /\ walletData' = [walletData EXCEPT ![id] = row]
    /\ last' = Event("otherMemberSync", id, "")
    /\ UNCHANGED << working, syncState, store, navOnline, session, now, sharing, ab, backups,
                    calls, counters >>

\* -------------------------------------------------------- checkCloudBackup
\* new Date(ts).getTime(), and 0 for a null lastSync
TimeOf(ts) == IF ts = Null THEN 0 ELSE ts

\* FetchedBackup handing on the metadata as stored
FetchedBackup_StoredMetadata(failed, row) ==
  IF ~failed /\ row.exists
  THEN [found |-> TRUE, data |-> row.data, metadata |-> row.metadata]
  ELSE [found |-> FALSE]

\* cloudDrive.restoreBackup on a response: null on an error, null unless a
\* row with data came
FetchedBackup(failed, row) ==
  IF ~failed /\ row.exists
  THEN [found |-> TRUE, data |-> row.data,
        metadata |-> [timestamp |-> row.updated_at,
                      items_count |-> row.metadata.items_count]]
  ELSE [found |-> FALSE]

\* IsNewer with >= for >
IsNewer_OrEqual(cloudTs, localLastSync) == TimeOf(cloudTs) >= TimeOf(localLastSync)

\* if (cloudTime > localTime)
IsNewer(cloudTs, localLastSync) == TimeOf(cloudTs) > TimeOf(localLastSync)

\* checkCloudBackup up to its await: offline, restoreBackup returns null at once
CheckStarted == IF navOnline THEN "sent" ELSE "idle"

\* SIGNED_IN: the auth listener sets the user and starts the check
Login ==
  /\ navOnline
  /\ ~session
  /\ session' = TRUE
  /\ syncState' = [syncState EXCEPT !.isLoggedIn = TRUE, !.user = TheUser]
  /\ chk' = CheckStarted
  /\ last' = Event("login", "", "")
  /\ UNCHANGED << working, store, navOnline, now, sharing, ab, remote, bk, lost, rs, sw, ui, counters >>

Logout ==
  /\ session
  /\ session' = FALSE
  /\ syncState' = [syncState EXCEPT !.isLoggedIn = FALSE, !.user = NoUser]
  /\ last' = Event("logout", "", "")
  /\ UNCHANGED << working, store, navOnline, now, sharing, ab, remote, calls, counters >>

\* CheckRespond taking a failed fetch for a newer backup
CheckRespond_ErrorSetsPending ==
  \E failed \in BOOLEAN :
    LET backup == FetchedBackup(failed, backups)
        found == backup.found
    IN /\ chk = "sent"
       /\ chk' = "idle"
       /\ syncState' =
            IF ~found \/ IsNewer(backup.metadata.timestamp, store.lastSync)
            THEN [syncState EXCEPT !.pendingRestoreAvailable = TRUE]
            ELSE syncState
       /\ last' = Event("checkRespond", "", IF found THEN "found" ELSE "none")
       /\ UNCHANGED << working, store, navOnline, session, now, sharing, ab, remote,
                       bk, lost, rs, sw, ui, counters >>

\* the response of the check: the row read, or an error / a null result
CheckRespond ==
  \E failed \in BOOLEAN :
    LET backup == FetchedBackup(failed, backups)
        found == backup.found
    IN /\ chk = "sent"
       /\ chk' = "idle"
       /\ syncState' =
            IF found /\ IsNewer(backup.metadata.timestamp, store.lastSync)
            THEN [syncState EXCEPT !.pendingRestoreAvailable = TRUE]
            ELSE syncState
       /\ last' = Event("checkRespond", "", IF found THEN "found" ELSE "none")
       /\ UNCHANGED << working, store, navOnline, session, now, sharing, ab, remote,
                       bk, lost, rs, sw, ui, counters >>

\* ------------------------------------------------------------------ backup
\* BackupGuard with the size guard off by one (>= for >)
BackupGuard_Inclusive(online, appData) ==
  IF ~online THEN "offline"
  ELSE IF JsonBytes(appData) >= MAX_PAYLOAD_SIZE_BYTES THEN "tooLarge"
  ELSE "sent"

\* cloudDrive.backupUserData up to the request: the offline and size guards
BackupGuard(online, appData) ==
  IF ~online THEN "offline"
  ELSE IF JsonBytes(appData) > MAX_PAYLOAD_SIZE_BYTES THEN "tooLarge"
  ELSE "sent"

\* ResultTimestamp answering the client's own clock reading
ResultTimestamp_ClientClock(echo, clientTime) == clientTime

\* { timestamp: data?.updated_at || clientTime }
ResultTimestamp(echo, clientTime) == IF echo # Null THEN echo ELSE clientTime

\* The update time the row store holds after an upsert that proposes
\* updated_at = clientTime: the proposed value, or the store's own clock
\* where the column is maintained by the store.
ServerStamps(req) == {req.clientTime, now}

\* handleManualBackup up to the request of cloudDrive.backupUserData
ManualBackupStart ==
  LET outcome == BackupGuard(navOnline, Snapshot)
  IN /\ syncState.isLoggedIn /\ syncState.user # NoUser
     /\ ~ui.isBackingUp /\ ~ui.isRestoring
     /\ bk.phase = "idle"
     /\ IF outcome = "sent"
        THEN /\ bk' = [phase |-> "sent",
                       req |-> [data |-> Blob(Fields, Snapshot), clientTime |-> now],
                       echo |-> Null]
             /\ ui' = [ui EXCEPT !.isBackingUp = TRUE]
        ELSE UNCHANGED << bk, ui >>
     /\ last' = Event("backupStart", "", outcome)
     /\ UNCHANGED << working, syncState, store, navOnline, session, now, sharing, ab, remote,
                     lost, chk, rs, sw, counters >>

\* ServerApplyBackup keeping a row that is not older than the request
ServerApplyBackup_KeepsNewer ==
  \E stamp \in ServerStamps(bk.req) :
    /\ bk.phase = "sent"
    /\ backups' = IF backups.exists /\ backups.metadata.timestamp >= bk.req.clientTime
                  THEN backups
                  ELSE BackupRow(bk.req.data, bk.req.clientTime, stamp)
    /\ bk' = [bk EXCEPT !.phase = "applied", !.echo = stamp]
    /\ last' = Event("serverApply", "", "")
    /\ UNCHANGED << working, syncState, store, navOnline, session, now, sharing, ab, walletData,
                    lost, chk, rs, sw, ui, counters >>

\* the row store performs the upsert of the pending request: the row of
\* the user is inserted, or replaced where there is one (onConflict)
ServerApplyBackup ==
  \E stamp \in ServerStamps(bk.req) :
    /\ bk.phase = "sent"
    /\ backups' = BackupRow(bk.req.data, bk.req.clientTime, stamp)
    /\ bk' = [bk EXCEPT !.phase = "applied", !.echo = stamp]
    /\ last' = Event("serverApply", "", "")
    /\ UNCHANGED << working, syncState, store, navOnline, session, now, sharing, ab, walletData,
                    lost, chk, rs, sw, ui, counters >>

\* the response of a performed upsert reaches backupUserData of the context
BackupSucceeded ==
  LET result == [timestamp |-> ResultTimestamp(bk.echo, bk.req.clientTime)]
  IN /\ bk.phase = "applied"
     /\ syncState' = [syncState EXCEPT !.lastSync = result.timestamp,
                                       !.unsyncedChanges = FALSE]
     /\ UNCHANGED working
     /\ PersistEffects
     /\ bk' = IdleCall
     /\ ui' = [ui EXCEPT !.isBackingUp = FALSE]
     /\ last' = Event("backupRespond", "", "ok")
     /\ UNCHANGED << navOnline, session, now, sharing, ab, remote, lost, chk, rs, sw,
                     counters >>

\* BackupRejected with the flag cleared whatever the outcome
BackupRejected_ClearsFlag ==
  /\ bk.phase = "sent"
  /\ bk' = IdleCall
  /\ ui' = [ui EXCEPT !.isBackingUp = FALSE]
  /\ syncState' = [syncState EXCEPT !.unsyncedChanges = FALSE]
  /\ last' = Event("backupRespond", "", "rejected")
  /\ UNCHANGED << working, store, navOnline, session, now, sharing, ab, remote,
                  lost, chk, rs, sw, counters >>

\* the request comes back with an error: `if (error) throw error`
BackupRejected ==
  /\ bk.phase = "sent"
  /\ bk' = IdleCall
  /\ ui' = [ui EXCEPT !.isBackingUp = FALSE]
  /\ last' = Event("backupRespond", "", "rejected")
  /\ UNCHANGED << working, syncState, store, navOnline, session, now, sharing, ab, remote,
                  lost, chk, rs, sw, counters >>

\* BackupTimedOut with the request aborted by the timer
BackupTimedOut_Cancels ==
  /\ bk.phase \in {"sent", "applied"}
  /\ bk.phase = "sent" => Cardinality(lost) < MaxLost
  /\ bk' = IdleCall
  /\ ui' = [ui EXCEPT !.isBackingUp = FALSE]
  /\ last' = Event("backupRespond", "", "timeout")
  /\ UNCHANGED << working, syncState, store, navOnline, session, now, sharing, ab, remote,
                  lost, chk, rs, sw, counters >>

\* the 30s timer wins Promise.race; the request itself is not cancelled
BackupTimedOut ==
  /\ bk.phase \in {"sent", "applied"}
  /\ bk.phase = "sent" => Cardinality(lost) < MaxLost
  /\ lost' = IF bk.phase = "sent" THEN lost \cup {bk.req} ELSE lost
  /\ bk' = IdleCall
  /\ ui' = [ui EXCEPT !.isBackingUp = FALSE]
  /\ last' = Event("backupRespond", "", "timeout")
  /\ UNCHANGED << working, syncState, store, navOnline, session, now, sharing, ab, remote,
                  chk, rs, sw, counters >>

\* an upsert nobody waits for any more is performed after all
LostApply ==
  \E r \in lost : \E stamp \in ServerStamps(r) :
    /\ backups' = BackupRow(r.data, r.clientTime, stamp)
    /\ lost' = lost \ {r}
    /\ last' = Event("lostApply", "", "")
    /\ UNCHANGED << working, syncState, store, navOnline, session, now, sharing, ab, walletData,
                    bk, chk, rs, sw, ui, counters >>

\* ------------------------------------------------------------- auto-backup
\* One step of the clock is a week
HoursPerTick == 7 * 24

\* settings.autoBackup === 'daily' ? 24 : 168
IntervalHours(mode) == IF mode = "daily" THEN 24 ELSE 168

\* AutoBackupDue with >= for >
AutoBackupDue_Inclusive(mode, lastSync, clock) ==
  (clock - TimeOf(lastSync)) * HoursPerTick >= IntervalHours(mode)

\* if (now - last > intervalMs)
AutoBackupDue(mode, lastSync, clock) ==
  (clock - TimeOf(lastSync)) * HoursPerTick > IntervalHours(mode)

\* The auto-backup effect has a timer running: logged in, on line, the
\* setting is not 'off' and lastSync is set
AutoBackupArmed ==
  /\ syncState.isLoggedIn
  /\ syncState.isOnline
  /\ settings.autoBackup # "off"
  /\ syncState.lastSync # Null

\* a call of backupUserData by checkBackup that has sent its request; n
\* tells the calls under way apart
AutoCall(req) ==
  [phase |-> "sent", req |-> req, echo |-> Null,
   n |-> CHOOSE i \in 1..MaxAuto : \A c \in ab : c.n # i]

\* checkBackup, run when the effect starts and by its timer every minute:
\* backupUserData of the context is called when the interval has passed,
\* whatever else is under way; an error is logged
AutoBackupCheck ==
  LET outcome ==
        IF ~AutoBackupDue(settings.autoBackup, syncState.lastSync, now) THEN "notDue"
        ELSE IF syncState.user = NoUser THEN "noUser"
        ELSE BackupGuard(navOnline, Snapshot)
  IN /\ AutoBackupArmed
     /\ IF outcome = "sent"
        THEN /\ Cardinality(ab) < MaxAuto
             /\ ab' = ab \cup {AutoCall([data |-> Blob(Fields, Snapshot),
                                         clientTime |-> now])}
        ELSE UNCHANGED ab
     /\ last' = Event("autoCheck", "", outcome)
     /\ UNCHANGED << working, syncState, store, navOnline, session, now, sharing, remote,
                     calls, counters >>

\* the row store performs the upsert of an auto-backup
AutoApply ==
  \E c \in ab : \E stamp \in ServerStamps(c.req) :
    /\ c.phase = "sent"
    /\ backups' = BackupRow(c.req.data, c.req.clientTime, stamp)
    /\ ab' = (ab \ {c}) \cup {[c EXCEPT !.phase = "applied", !.echo = stamp]}
    /\ last' = Event("autoApply", "", "")
    /\ UNCHANGED << working, syncState, store, navOnline, session, now, sharing, walletData,
                    calls, counters >>

\* the auto-backup is refused or timed out: catch (e) { console.error }
AutoFailed ==
  \E c \in ab, timedOut \in BOOLEAN :
    /\ ~timedOut => c.phase = "sent"
    /\ timedOut /\ c.phase = "sent" => Cardinality(lost) < MaxLost
    /\ lost' = IF timedOut /\ c.phase = "sent" THEN lost \cup {c.req} ELSE lost
    /\ ab' = ab \ {c}
    /\ last' = Event("autoRespond", "", IF timedOut THEN "timeout" ELSE "rejected")
    /\ UNCHANGED << working, syncState, store, navOnline, session, now, sharing, remote,
                    bk, chk, rs, sw, ui, counters >>

\* the response of a performed auto-backup reaches backupUserData
AutoSucceeded ==
  \E c \in ab :
    LET result == [timestamp |-> ResultTimestamp(c.echo, c.req.clientTime)]
    IN /\ c.phase = "applied"
       /\ syncState' = [syncState EXCEPT !.lastSync = result.timestamp,
                                         !.unsyncedChanges = FALSE]
       /\ UNCHANGED working
       /\ PersistEffects
       /\ ab' = ab \ {c}
       /\ last' = Event("autoRespond", "", "ok")
       /\ UNCHANGED << navOnline, session, now, sharing, remote, calls, counters >>

\* ----------------------------------------------------------------- restore
\* `if (remoteData.f)`: the key is there and its value is not falsy; arrays
\* and objects are never falsy, the number 0 is
Truthy(remoteData, f) ==
  /\ f \in remoteData.has
  /\ f = "budget" => remoteData.budget # 0

\* ReplaceField that never takes the remote value
ReplaceField_KeepsLocal(f, localValue, remoteData) == localValue

\* ReplaceField testing the presence of the key, not its value
ReplaceField_IfPresent(f, localValue, remoteData) ==
  IF f \in remoteData.has THEN remoteData[f] ELSE localValue

\* if (remoteData.f) setF(remoteData.f)
ReplaceField(f, localValue, remoteData) ==
  IF Truthy(remoteData, f) THEN remoteData[f] ELSE localValue

\* NewTxs without the filter
NewTxs_Unfiltered(remoteData, localIds) == remoteData.transactions

\* remoteData.transactions.filter(t => !localIds.has(t.id))
NewTxs(remoteData, localIds) ==
  SelectSeq(remoteData.transactions, LAMBDA t : t.id \notin localIds)

RestoreFlag(c) == IF c = "settings" THEN "isRestoring" ELSE "isProcessing"

\* setIsRestoring(b) / setIsProcessing(b) of the control; another consumer
\* of the context has no such flag
Busy(c, b) == IF c \in Controls THEN [ui EXCEPT ![RestoreFlag(c)] = b] ELSE ui

\* RestoreEnabled with the prompt shown whatever pendingRestoreAvailable is
RestoreEnabled_PromptAlways(c, strategy) ==
  IF c = "settings"
  THEN /\ syncState.isLoggedIn
       /\ ~ui.isBackingUp /\ ~ui.isRestoring
       /\ strategy = "replace"
  ELSE ~ui.isProcessing

\* The control may be used: the Settings button (handleRestore, always
\* 'replace') or a button of RestorePromptModal (handleStrategy)
RestoreEnabled(c, strategy) ==
  IF c = "settings"
  THEN /\ syncState.isLoggedIn
       /\ ~ui.isBackingUp /\ ~ui.isRestoring
       /\ strategy = "replace"
  ELSE /\ syncState.pendingRestoreAvailable
       /\ ~ui.isProcessing

\* RestoreEarlyResult without the test of navigator.onLine
RestoreEarlyResult_IgnoresOffline(strategy, user, online) ==
  IF strategy = "skip" THEN "true"
  ELSE IF user = NoUser THEN "false"
  ELSE "sent"

\* RestoreEarlyResult with the user test ahead of the skip test
RestoreEarlyResult_UserFirst(strategy, user, online) ==
  IF user = NoUser THEN "false"
  ELSE IF strategy = "skip" THEN "true"
  ELSE IF ~online THEN "false"
  ELSE "sent"

\* What restoreBackup returns before any request: true for 'skip', false
\* without a user or off line, otherwise the request is sent
RestoreEarlyResult(strategy, user, online) ==
  IF strategy = "skip" THEN "true"
  ELSE IF user = NoUser \/ ~online THEN "false"
  ELSE "sent"

\* restoreBackup(strategy) up to the await of cloudDrive.restoreBackup,
\* called by c
RestoreCall(c, strategy) ==
    /\ rs[c].phase = "idle"
    /\ LET early == RestoreEarlyResult(strategy, syncState.user, navOnline)
       IN
       IF early = "true"
       THEN /\ syncState' = [syncState EXCEPT !.pendingRestoreAvailable = FALSE]
            /\ last' = Event("restoreStart", strategy, "true")
            /\ UNCHANGED << rs, ui >>
       ELSE IF early = "false"
       THEN /\ last' = Event("restoreStart", strategy, "false")
            /\ UNCHANGED << syncState, rs, ui >>
       ELSE /\ rs' = [rs EXCEPT ![c] =
                       [phase |-> "sent", strategy |-> strategy,
                        localIds |-> {transactions[i].id : i \in 1..Len(transactions)}]]
            /\ ui' = Busy(c, TRUE)
            /\ last' = Event("restoreStart", strategy, "sent")
            /\ UNCHANGED syncState
    /\ UNCHANGED << working, store, navOnline, session, now, sharing, ab, remote, bk, lost, chk,
                    sw, counters >>

\* a control of the page calls restoreBackup
RestoreStart ==
  \E c \in Controls, strategy \in Strategies :
    /\ RestoreEnabled(c, strategy)
    /\ RestoreCall(c, strategy)

\* restoreBackup called through the context, one call after the other
ContextRestore ==
  \E strategy \in Strategies : RestoreCall("context", strategy)

\* the rest of restoreBackup once cloudDrive.restoreBackup has answered
RestoreRespond ==
  \E c \in Callers, failed \in BOOLEAN :
    LET backup == FetchedBackup(failed, backups)
        found == backup.found
        strategy == rs[c].strategy
        remoteData == backup.data
        threw == found /\ strategy = "merge" /\ "transactions" \notin remoteData.has
    IN /\ rs[c].phase = "sent"
       /\ rs' = [rs EXCEPT ![c] = IdleRestore]
       /\ IF ~found
          THEN /\ UNCHANGED << working, syncState, store >>
               /\ ui' = Busy(c, FALSE)
               /\ last' = Event("restoreRespond", strategy, "false")
          ELSE IF threw
          THEN \* filter of undefined: the TypeError leaves handleStrategy
               \* before setIsProcessing(false)
               /\ UNCHANGED << working, syncState, store, ui >>
               /\ last' = Event("restoreRespond", strategy, "threw")
          ELSE /\ IF strategy = "replace"
                  THEN /\ transactions' = ReplaceField("transactions", transactions, remoteData)
                       /\ accounts' = ReplaceField("accounts", accounts, remoteData)
                       /\ categories' = ReplaceField("categories", categories, remoteData)
                       /\ settings' = ReplaceField("settings", settings, remoteData)
                       /\ budget' = ReplaceField("budget", budget, remoteData)
                       /\ categoryBudgets' =
                            ReplaceField("categoryBudgets", categoryBudgets, remoteData)
                  ELSE /\ transactions' = transactions \o NewTxs(remoteData, rs[c].localIds)
                       /\ UNCHANGED << accounts, categories, settings, budget,
                                       categoryBudgets >>
               /\ syncState' = [syncState EXCEPT
                                  !.lastSync = backup.metadata.timestamp,
                                  !.pendingRestoreAvailable = FALSE,
                                  !.unsyncedChanges = FALSE]
               /\ PersistEffects
               /\ ui' = Busy(c, FALSE)
               /\ last' = Event("restoreRespond", strategy, "true")
       /\ UNCHANGED << navOnline, session, now, sharing, ab, remote, bk, lost, chk, sw, counters >>

\* ------------------------------------------------------------ switchWallet
\* wData.f || fallback
OrElse(wData, f, fallback) ==
  IF f \in wData.has /\ wData[f] # fallback THEN wData[f] ELSE fallback

\* switchWallet(id) up to the await of getWalletData, all of it for null
SwitchWalletStart ==
  \E id \in WalletIds \cup {Personal} :
    /\ syncState' = [syncState EXCEPT !.activeWalletId = id]
    /\ IF id # Personal
       THEN /\ sw' = IF navOnline THEN sw \cup {id} ELSE sw
            /\ UNCHANGED working
       ELSE /\ transactions' = store.transactions
            /\ accounts' = store.accounts
            /\ categories' = store.categories
            /\ UNCHANGED << settings, budget, categoryBudgets, sw >>
    /\ PersistEffects
    /\ baseline' = IF id # Personal /\ syncState.activeWalletId = Personal
                   THEN [known |-> TRUE, transactions |-> transactions,
                         accounts |-> accounts, categories |-> categories,
                         budget |-> budget]
                   ELSE baseline
    /\ last' = Event("switchWallet", id, IF id # Personal /\ navOnline THEN "sent" ELSE "")
    /\ UNCHANGED << navOnline, session, now, sharing, ab, remote, bk, lost, chk, rs, ui,
                    edits, writes, reloads >>

\* SwitchWalletRespond emptying the working set when no record came
SwitchWalletRespond_ResetsEmpty ==
  \E id \in sw, failed \in BOOLEAN :
    LET row == walletData[id]
        found == ~failed /\ row.exists
        wData == IF found THEN row.data ELSE Blob({}, OtherSnapshot(0))
    IN /\ sw' = sw \ {id}
       /\ transactions' = OrElse(wData, "transactions", << >>)
       /\ accounts' = OrElse(wData, "accounts", << >>)
       /\ categories' = OrElse(wData, "categories", << >>)
       /\ budget' = OrElse(wData, "budget", 0)
       /\ UNCHANGED << settings, categoryBudgets >>
       /\ UNCHANGED syncState
       /\ PersistEffects
       /\ last' = Event("switchRespond", id, IF found THEN "found" ELSE "none")
       /\ UNCHANGED << navOnline, session, now, sharing, ab, remote, bk, lost, chk, rs, ui, counters >>

\* getWalletData has answered: the row's data, or null on an error
SwitchWalletRespond ==
  \E id \in sw, failed \in BOOLEAN :
    LET row == walletData[id]
        found == ~failed /\ row.exists
        wData == row.data
    IN /\ sw' = sw \ {id}
       /\ IF found
          THEN /\ transactions' = OrElse(wData, "transactions", << >>)
               /\ accounts' = OrElse(wData, "accounts", << >>)
               /\ categories' = OrElse(wData, "categories", << >>)
               /\ budget' = OrElse(wData, "budget", 0)
               /\ UNCHANGED << settings, categoryBudgets >>
          ELSE UNCHANGED working
       /\ UNCHANGED syncState
       /\ PersistEffects
       /\ last' = Event("switchRespond", id, IF found THEN "found" ELSE "none")
       /\ UNCHANGED << navOnline, session, now, sharing, ab, remote, bk, lost, chk, rs, ui, counters >>

\* ------------------------------------------------- wallets and membership
\* what the wallet handlers leave alone
WalletFrame ==
  UNCHANGED << working, syncState, store, navOnline, session, now, backups,
               calls, counters, ab >>

\* getMyWallets: the memberships of the user joined with the wallet rows
MyWallets(u) ==
  {[id |-> m.wallet_id, role |-> m.role] :
     m \in {x \in members : x.user_id = u
                            /\ \E r \in walletRows : r.id = x.wallet_id}}

\* refreshWallets: the list is replaced by what getMyWallets returns, which
\* is the empty list off line or on an error
RefreshWallets ==
  \E failed \in BOOLEAN :
    /\ syncState.user # NoUser
    /\ wallets' = IF navOnline /\ ~failed THEN MyWallets(syncState.user) ELSE {}
    /\ last' = Event("refreshWallets", "", "")
    /\ UNCHANGED << walletRows, members, minted, cw, dw, view, walletData >>
    /\ WalletFrame

\* createWallet up to the insert of the wallet row: nothing without a user,
\* an error off line or when the insert is refused
CreateWalletStart ==
  \E id \in WalletIds \ minted, failed \in BOOLEAN :
    /\ syncState.user # NoUser
    /\ cw.phase = "idle"
    /\ IF ~navOnline \/ failed
       THEN /\ last' = Event("createWallet", id, "threw")
            /\ UNCHANGED << walletRows, minted, cw >>
       ELSE /\ walletRows' = walletRows \cup {WalletRow(id, syncState.user)}
            /\ minted' = minted \cup {id}
            /\ cw' = [phase |-> "owner", id |-> id]
            /\ last' = Event("createWallet", id, "inserted")
    /\ UNCHANGED << members, wallets, dw, view, walletData >>
    /\ WalletFrame

\* createWallet: the insert of the creator's membership with role owner; on
\* success the wallet joins the list of the session
CreateWalletOwner ==
  \E failed \in BOOLEAN :
    /\ cw.phase = "owner"
    /\ IF failed
       THEN /\ cw' = [cw EXCEPT !.phase = "rollback"]
            /\ last' = Event("createWalletOwner", cw.id, "failed")
            /\ UNCHANGED << members, wallets >>
       ELSE /\ members' = members \cup {Member(cw.id, TheUser, "owner")}
            /\ wallets' = wallets \cup {[id |-> cw.id, role |-> "owner"]}
            /\ cw' = IdleWalletCall
            /\ last' = Event("createWalletOwner", cw.id, "ok")
    /\ UNCHANGED << walletRows, minted, dw, view, walletData >>
    /\ WalletFrame

\* createWallet: the delete that takes the wallet row back, whose result is
\* not looked at, and the error thrown after it
CreateWalletRollback ==
  \E failed \in BOOLEAN :
    /\ cw.phase = "rollback"
    /\ walletRows' = IF failed THEN walletRows
                     ELSE {r \in walletRows : r.id # cw.id}
    /\ cw' = IdleWalletCall
    /\ last' = Event("createWalletRollback", cw.id, "threw")
    /\ UNCHANGED << members, minted, wallets, dw, view, walletData >>
    /\ WalletFrame

\* The trash control, shown on the wallets the list holds with role owner,
\* once confirmed: deleteWallet up to the first delete; an error off line
DeleteWalletStart ==
  \E w \in wallets :
    /\ w.role = "owner"
    /\ dw.phase = "idle"
    /\ IF ~navOnline
       THEN /\ last' = Event("deleteWallet", w.id, "threw")
            /\ UNCHANGED dw
       ELSE /\ dw' = [phase |-> "members", id |-> w.id]
            /\ last' = Event("deleteWallet", w.id, "sent")
    /\ UNCHANGED << walletRows, members, minted, wallets, cw, view, walletData >>
    /\ WalletFrame

\* deleteWallet with a failure of the first delete ending the call
DeleteWalletMembers_Abort ==
  \E failed \in BOOLEAN :
    /\ dw.phase = "members"
    /\ members' = IF failed THEN members
                  ELSE {m \in members : m.wallet_id # dw.id}
    /\ dw' = IF failed THEN IdleWalletCall ELSE [dw EXCEPT !.phase = "data"]
    /\ last' = Event("deleteWalletMembers", dw.id, IF failed THEN "failed" ELSE "ok")
    /\ UNCHANGED << walletRows, minted, wallets, cw, view, walletData >>
    /\ WalletFrame

\* deleteWallet 1: the delete of the wallet's memberships; its result is
\* not looked at
DeleteWalletMembers ==
  \E failed \in BOOLEAN :
    /\ dw.phase = "members"
    /\ members' = IF failed THEN members
                  ELSE {m \in members : m.wallet_id # dw.id}
    /\ dw' = [dw EXCEPT !.phase = "data"]
    /\ last' = Event("deleteWalletMembers", dw.id, IF failed THEN "failed" ELSE "ok")
    /\ UNCHANGED << walletRows, minted, wallets, cw, view, walletData >>
    /\ WalletFrame

\* deleteWallet 2: the delete of the wallet's data record; its result is
\* not looked at
DeleteWalletData ==
  \E failed \in BOOLEAN :
    /\ dw.phase = "data"
    /\ walletData' = IF failed THEN walletData
                     ELSE [walletData EXCEPT ![dw.id] = NoRow]
    /\ dw' = [dw EXCEPT !.phase = "row"]
    /\ last' = Event("deleteWalletData", dw.id, IF failed THEN "failed" ELSE "ok")
    /\ UNCHANGED << walletRows, members, minted, wallets, cw, view >>
    /\ WalletFrame

\* deleteWallet 3: the delete of the wallet row; an error of it is thrown,
\* otherwise the wallet leaves the list and, when it was the active one,
\* switchWallet(null) runs
DeleteWalletRow ==
  \E failed \in BOOLEAN :
    /\ dw.phase = "row"
    /\ dw' = IdleWalletCall
    /\ IF failed
       THEN /\ last' = Event("deleteWalletRow", dw.id, "threw")
            /\ UNCHANGED << walletRows, wallets, working, syncState, store >>
       ELSE /\ walletRows' = {r \in walletRows : r.id # dw.id}
            /\ wallets' = {w \in wallets : w.id # dw.id}
            /\ last' = Event("deleteWalletRow", dw.id, "ok")
            /\ IF syncState.activeWalletId = dw.id
               THEN /\ syncState' = [syncState EXCEPT !.activeWalletId = Personal]
                    /\ transactions' = store.transactions
                    /\ accounts' = store.accounts
                    /\ categories' = store.categories
                    /\ UNCHANGED << settings, budget, categoryBudgets >>
                    /\ PersistEffects
               ELSE UNCHANGED << working, syncState, store >>
    /\ UNCHANGED << members, minted, cw, view, remote, navOnline, session, now,
                    calls, counters, ab >>

\* The info / invite control of a wallet of the list: the modal opens and
\* getWalletMembers loads the members
OpenMembers ==
  \E w \in wallets, failed \in BOOLEAN :
    /\ view.id = NoWallet
    /\ view' = [id |-> w.id,
                activeMembers |-> IF failed THEN {}
                                  ELSE {m \in members : m.wallet_id = w.id}]
    /\ last' = Event("openMembers", w.id, "")
    /\ UNCHANGED << walletRows, members, minted, wallets, cw, dw, walletData >>
    /\ WalletFrame

CloseMembers ==
  /\ view.id # NoWallet
  /\ view' = [view EXCEPT !.id = NoWallet]
  /\ last' = Event("closeMembers", "", "")
  /\ UNCHANGED << walletRows, members, minted, wallets, cw, dw, walletData >>
  /\ WalletFrame

\* The unique key of the members table on (wallet_id, user_id): an insert
\* of a pair the table holds is refused with code 23505
DuplicateKey(w, u) == \E m \in members : m.wallet_id = w /\ m.user_id = u

\* HandleInvite going on to the insert when the lookup found nobody
HandleInvite_InsertsUnknown ==
  \E u \in AllUsers, found \in BOOLEAN, failed \in BOOLEAN :
    LET added == members \cup {Member(view.id, u, "editor")}
    IN /\ view.id # NoWallet
       /\ IF DuplicateKey(view.id, u)
          THEN /\ last' = Event("invite", view.id, "duplicate")
               /\ UNCHANGED << members, view >>
          ELSE IF failed
          THEN /\ last' = Event("invite", view.id, "failed")
               /\ UNCHANGED << members, view >>
          ELSE /\ members' = added
               /\ view' = [view EXCEPT
                             !.activeMembers = {m \in added : m.wallet_id = view.id}]
               /\ last' = Event("invite", view.id,
                                IF ~navOnline \/ ~found THEN "notFound" ELSE "added")
       /\ UNCHANGED << walletRows, minted, wallets, cw, dw, walletData >>
       /\ WalletFrame

\* handleInvite: the user of the e-mail is looked up and inserted as an
\* editor of the wallet viewed; the members are loaded again on success
HandleInvite ==
  \E u \in AllUsers, found \in BOOLEAN, failed \in BOOLEAN :
    LET added == members \cup {Member(view.id, u, "editor")}
    IN /\ view.id # NoWallet
       /\ IF ~navOnline \/ ~found
          THEN /\ last' = Event("invite", view.id, "notFound")
               /\ UNCHANGED << members, view >>
          ELSE IF DuplicateKey(view.id, u)
          THEN /\ last' = Event("invite", view.id, "duplicate")
               /\ UNCHANGED << members, view >>
          ELSE IF failed
          THEN /\ last' = Event("invite", view.id, "failed")
               /\ UNCHANGED << members, view >>
          ELSE /\ members' = added
               /\ view' = [view EXCEPT
                             !.activeMembers = {m \in added : m.wallet_id = view.id}]
               /\ last' = Event("invite", view.id, "added")
       /\ UNCHANGED << walletRows, minted, wallets, cw, dw, walletData >>
       /\ WalletFrame

\* handleRemoveMember, from the remove control shown on the members loaded
\* whose role is not owner
HandleRemoveMember ==
  \E m \in view.activeMembers, failed \in BOOLEAN :
    /\ view.id # NoWallet
    /\ m.role # "owner"
    /\ IF failed
       THEN /\ last' = Event("removeMember", view.id, "failed")
            /\ UNCHANGED << members, view >>
       ELSE /\ members' = {x \in members :
                             ~(x.wallet_id = view.id /\ x.user_id = m.user_id)}
            /\ view' = [view EXCEPT
                          !.activeMembers = {x \in @ : x.user_id # m.user_id}]
            /\ last' = Event("removeMember", view.id, "ok")
    /\ UNCHANGED << walletRows, minted, wallets, cw, dw, walletData >>
    /\ WalletFrame

\* Another user creates a wallet of their own
OtherCreateWallet ==
  \E id \in WalletIds \ minted :
    /\ walletRows' = walletRows \cup {WalletRow(id, OtherOwner)}
    /\ members' = members \cup {Member(id, OtherOwner, "owner")}
    /\ minted' = minted \cup {id}
    /\ last' = Event("otherCreateWallet", id, "")
    /\ UNCHANGED << wallets, cw, dw, view, walletData >>
    /\ WalletFrame

\* The other user invites the user of this session to their wallet
OtherInvite ==
  \E r \in walletRows :
    /\ r.created_by = OtherOwner
    /\ Member(r.id, OtherOwner, "owner") \in members
    /\ ~DuplicateKey(r.id, TheUser)
    /\ members' = members \cup {Member(r.id, TheUser, "editor")}
    /\ last' = Event("otherInvite", r.id, "")
    /\ UNCHANGED << walletRows, minted, wallets, cw, dw, view, walletData >>
    /\ WalletFrame

\* ------------------------------------------------------------------ reload
\* The page is loaded again: AppProvider is constructed from local storage;
\* what the old page was waiting for is gone, requests already sent are not.
Reload ==
  /\ reloads < MaxReloads
  /\ reloads' = reloads + 1
  /\ transactions' = store.transactions
  /\ accounts' = store.accounts
  /\ categories' = store.categories
  /\ settings' = store.settings
  /\ budget' = store.budget
  /\ categoryBudgets' = store.categoryBudgets
  /\ syncState' = [isLoggedIn |-> FALSE, user |-> NoUser,
                   lastSync |-> store.lastSync,
                   pendingRestoreAvailable |-> FALSE, isOnline |-> navOnline,
                   unsyncedChanges |-> FALSE,
                   activeWalletId |-> store.activeWalletId]
  /\ PersistEffects
  /\ bk.phase = "sent" => Cardinality(lost) < MaxLost
  /\ lost' = (IF bk.phase = "sent" THEN lost \cup {bk.req} ELSE lost)
             \cup {c.req : c \in {x \in ab : x.phase = "sent"}}
  /\ Cardinality(lost') <= MaxLost
  /\ ab' = {}
  /\ bk' = IdleCall
  /\ chk' = "idle"
  /\ rs' = [c \in Callers |-> IdleRestore]
  /\ sw' = {}
  /\ ui' = [isBackingUp |-> FALSE, isRestoring |-> FALSE, isProcessing |-> FALSE]
  /\ last' = Event("reload", "", "")
  /\ cw' = IdleWalletCall
  /\ dw' = IdleWalletCall
  /\ view' = ClosedView
  /\ UNCHANGED << navOnline, session, now, remote, edits, writes, baseline,
                  walletRows, members, minted, wallets >>

\* getSession() finds the stored session: the user is set, the check starts
SessionRestored ==
  /\ session
  /\ ~syncState.isLoggedIn
  /\ syncState' = [syncState EXCEPT !.isLoggedIn = TRUE, !.user = TheUser]
  /\ chk' = CheckStarted
  /\ last' = Event("sessionRestored", "", "")
  /\ UNCHANGED << working, store, navOnline, now, sharing, ab, session, remote, bk, lost, rs, sw,
                  ui, counters >>

\* --------------------------------------------------------- specifications
\* Backup: a session that edits, goes on and off line and backs up by hand
NextBackup ==
  \/ AddTransaction \/ UpdateBudget
  \/ Tick \/ GoOffline \/ GoOnline
  \/ Login
  \/ ManualBackupStart \/ ServerApplyBackup \/ BackupSucceeded
  \/ BackupRejected \/ BackupTimedOut \/ LostApply

SpecBackup == Init /\ [][NextBackup]_vars

\* Restore: a session facing the backups of another session of its owner
NextRestore ==
  \/ ImportTransactions \/ UpdateBudget
  \/ GoOffline \/ GoOnline \/ OtherSessionBackup
  \/ Login \/ Logout \/ CheckRespond
  \/ RestoreStart \/ RestoreRespond
  \/ Reload \/ SessionRestored

SpecRestore == Init /\ [][NextRestore]_vars

\* Wallets: a session that moves between its personal data and a wallet
NextWallet ==
  \/ AddTransaction \/ AddAccount \/ AddCategory
  \/ GoOffline \/ GoOnline \/ OtherMemberSync
  \/ SwitchWalletStart \/ SwitchWalletRespond
  \/ Reload

SpecWallet == Init /\ [][NextWallet]_vars

\* Merge: restoreBackup called through the context, one call after the
\* other, by a session that imports and deletes transactions
NextMerge ==
  \/ ImportTransactions \/ DeleteTransaction
  \/ GoOffline \/ GoOnline \/ OtherSessionBackup
  \/ Login
  \/ ContextRestore \/ RestoreRespond

SpecMerge == Init /\ [][NextMerge]_vars

\* Members: a session that creates, shares and deletes wallets, next to
\* another user who shares a wallet with it
NextMembers ==
  \/ Login \/ GoOffline \/ GoOnline
  \/ RefreshWallets
  \/ CreateWalletStart \/ CreateWalletOwner \/ CreateWalletRollback
  \/ DeleteWalletStart \/ DeleteWalletMembers \/ DeleteWalletData \/ DeleteWalletRow
  \/ OpenMembers \/ CloseMembers \/ HandleInvite \/ HandleRemoveMember
  \/ OtherCreateWallet \/ OtherInvite

SpecMembers == Init /\ [][NextMembers]_vars

\* Sessions: a session that backs up by hand next to another session of
\* its owner that does the same, and a member storing a wallet's data
NextSessions ==
  \/ AddTransaction \/ UpdateBudget
  \/ GoOffline \/ GoOnline
  \/ Login
  \/ ManualBackupStart \/ ServerApplyBackup \/ BackupSucceeded
  \/ BackupRejected \/ BackupTimedOut \/ LostApply
  \/ OtherSessionBackup \/ OtherMemberSync

SpecSessions == Init /\ [][NextSessions]_vars

\* Auto: a session whose stored settings hold any auto-backup interval and
\* that backs up by hand while time passes and the auto-backup effect runs
NextAuto ==
  \/ Tick \/ GoOffline \/ GoOnline
  \/ Login
  \/ ManualBackupStart \/ ServerApplyBackup \/ BackupSucceeded \/ BackupRejected
  \/ AutoBackupCheck \/ AutoApply \/ AutoSucceeded \/ AutoFailed
  \/ LostApply

\* The provider constructed on a device whose storage holds the settings
\* of an earlier run: useState(() => storage.get(SETTINGS, DEFAULT_SETTINGS))
InitAuto ==
  \E opt \in AutoBackupModes :
    /\ settings = [DEFAULT_SETTINGS EXCEPT !.autoBackup = opt]
    /\ store = [transactions |-> << >>, accounts |-> INITIAL_ACCOUNTS,
                categories |-> INITIAL_CATEGORIES, settings |-> settings,
                budget |-> 0, categoryBudgets |-> << >>,
                lastSync |-> Null, activeWalletId |-> Personal,
                unsyncedChanges |-> FALSE]
    /\ transactions = << >>
    /\ accounts = INITIAL_ACCOUNTS
    /\ categories = INITIAL_CATEGORIES
    /\ budget = 0
    /\ categoryBudgets = << >>
    /\ syncState = [isLoggedIn |-> FALSE, user |-> NoUser, lastSync |-> Null,
                    pendingRestoreAvailable |-> FALSE, isOnline |-> TRUE,
                    unsyncedChanges |-> FALSE, activeWalletId |-> Personal]
    /\ navOnline = TRUE
    /\ session = FALSE
    /\ now = 1
    /\ backups = NoRow
    /\ walletData = [w \in WalletIds |-> NoRow]
    /\ bk = IdleCall
    /\ lost = {}
    /\ chk = "idle"
    /\ rs = [c \in Callers |-> IdleRestore]
    /\ sw = {}
    /\ ui = [isBackingUp |-> FALSE, isRestoring |-> FALSE, isProcessing |-> FALSE]
    /\ last = [op |-> "init", arg |-> "", res |-> "", run |-> "none"]
    /\ edits = 0
    /\ writes = 0
    /\ reloads = 0
    /\ baseline = [known |-> FALSE]
    /\ walletRows = {}
    /\ members = {}
    /\ minted = {}
    /\ wallets = {}
    /\ cw = IdleWalletCall
    /\ dw = IdleWalletCall
    /\ view = ClosedView
    /\ ab = {}

SpecAuto == InitAuto /\ [][NextAuto]_vars

\* the same with what the scheduling guarantees: the timer of the effect
\* fires while the effect is armed, a request sent is performed and
\* answered or times out, and time passes
SpecAutoFair ==
  /\ InitAuto /\ [][NextAuto]_vars
  /\ WF_vars(AutoBackupCheck)
  /\ WF_vars(AutoApply)
  /\ WF_vars(AutoSucceeded \/ AutoFailed)
  /\ WF_vars(ServerApplyBackup)
  /\ WF_vars(BackupSucceeded \/ BackupRejected)
  /\ WF_vars(Tick)

\* Flight: every way a backup or a restore is started in one session: the
\* Settings controls, the auto-backup effect and the restore prompt
NextFlight ==
  \/ Tick
  \/ Login \/ CheckRespond \/ OtherSessionBackup
  \/ ManualBackupStart \/ ServerApplyBackup \/ BackupSucceeded
  \/ AutoBackupCheck \/ AutoApply \/ AutoSucceeded
  \/ RestoreStart \/ RestoreRespond

SpecFlight == Init /\ [][NextFlight]_vars

\* Shared: a session that backs up by hand while it moves between its
\* personal data and a wallet that another member has stored data for
NextShared ==
  \/ AddTransaction
  \/ Login \/ OtherMemberSync
  \/ SwitchWalletStart \/ SwitchWalletRespond
  \/ ManualBackupStart \/ ServerApplyBackup \/ BackupSucceeded

SpecShared == Init /\ [][NextShared]_vars

\* The whole life of the unsyncedChanges flag: every local mutation, backup,
\* restore and reload
Next ==
  \/ AddTransaction \/ UpdateTransaction \/ DeleteTransaction \/ ImportTransactions
  \/ AddAccount \/ UpdateAccountName \/ DeleteAccount
  \/ AddCategory \/ UpdateCategory \/ DeleteCategory
  \/ UpdateBudget \/ UpdateCategoryBudget \/ UpdateSettings
  \/ Login \/ CheckRespond
  \/ ManualBackupStart \/ ServerApplyBackup \/ BackupSucceeded
  \/ RestoreStart \/ RestoreRespond
  \/ Reload \/ SessionRestored

Spec == Init /\ [][Next]_vars

\* ------------------------------------------------------------ properties
EditOps ==
  {"addTransaction", "updateTransaction", "deleteTransaction", "importTransactions",
   "addAccount", "updateAccountName", "deleteAccount",
   "addCategory", "updateCategory", "deleteCategory",
   "updateBudget", "updateCategoryBudget", "updateSettings"}

BackupOk(e) == e.op = "backupRespond" /\ e.res = "ok"
BackupFailed(e) ==
  \/ e.op = "backupStart" /\ e.res # "sent"
  \/ e.op = "backupRespond" /\ e.res # "ok"
RestoreOk(e, strategy) ==
  e.op = "restoreRespond" /\ e.arg = strategy /\ e.res = "true"

\* C1: unsyncedChanges is true after every local mutation, and a step takes
\* it from true to false only if it is the success of a backup or of a
\* merge/replace restore -- across reloads of the app as well.
C1_UnsyncedLifecycle ==
  [][ /\ last'.op \in EditOps => syncState'.unsyncedChanges
      /\ (syncState.unsyncedChanges /\ ~syncState'.unsyncedChanges)
           => \/ BackupOk(last')
              \/ RestoreOk(last', "merge")
              \/ RestoreOk(last', "replace") ]_vars

\* C2: while no edit was made since a wallet was entered from the personal
\* working set P, local storage still holds P, and switchWallet(null) leaves
\* the working transactions, accounts and categories equal to P.
C2_PersonalBaselineRestored ==
  baseline.known =>
    /\ store.transactions = baseline.transactions
    /\ store.accounts = baseline.accounts
    /\ store.categories = baseline.categories
    /\ (last.op = "switchWallet" /\ last.arg = Personal)
         => /\ transactions = baseline.transactions
            /\ accounts = baseline.accounts
            /\ categories = baseline.categories

\* C3: the step that completes a successful backup sets lastSync to the
\* update time echoed for the upserted row and clears unsyncedChanges.
C3_BackupSetsEchoedTime ==
  [][ BackupOk(last')
        => /\ syncState'.lastSync = bk.echo
           /\ ~syncState'.unsyncedChanges ]_vars

\* a backup succeeded whose echoed update time is not the clock reading the
\* client sent along
C3_Witness ==
  /\ BackupOk(last)
  /\ backups.exists
  /\ backups.updated_at # backups.metadata.timestamp
  /\ syncState.lastSync = backups.updated_at
  /\ ~syncState.unsyncedChanges

\* C4: a backup started off line or with a payload above the ceiling sends no
\* upsert (nothing is pending, nothing reaches the row store); on line with a
\* payload of exactly the ceiling the upsert of the snapshot is sent.
C4_GuardsBeforeRequest ==
  [][ last'.op = "backupStart"
        => /\ (~navOnline \/ JsonBytes(Snapshot) > MAX_PAYLOAD_SIZE_BYTES)
                => /\ last'.res # "sent"
                   /\ bk' = bk /\ lost' = lost /\ backups' = backups
           /\ (navOnline /\ JsonBytes(Snapshot) = MAX_PAYLOAD_SIZE_BYTES)
                => /\ bk'.phase = "sent"
                   /\ bk'.req.data = Blob(Fields, Snapshot) ]_vars

\* the upsert of a payload of exactly the ceiling is pending
C4_Witness ==
  /\ last.op = "backupStart" /\ last.res = "sent"
  /\ bk.phase = "sent"
  /\ JsonBytes(bk.req.data) = MAX_PAYLOAD_SIZE_BYTES

\* C5: a backup that fails (off line, too large, rejected, timed out) keeps
\* unsyncedChanges true if it was, and changes neither lastSync nor the
\* local snapshot, in memory or in storage.
C5_FailedBackupKeepsState ==
  [][ BackupFailed(last')
        => /\ syncState.unsyncedChanges => syncState'.unsyncedChanges
           /\ syncState'.lastSync = syncState.lastSync
           /\ Snapshot' = Snapshot
           /\ store' = store ]_vars

\* a rejected backup of a session with unsynced changes
C5_Witness ==
  /\ last.op = "backupRespond" /\ last.res = "rejected"
  /\ syncState.unsyncedChanges
  /\ transactions # << >>

\* C6: when the timer wins, the client's sync state is unchanged and the
\* request stays with the row store, which may still perform it; its later
\* completion tells the client nothing.
C6_TimeoutLeavesRequest ==
  [][ /\ (last'.op = "backupRespond" /\ last'.res = "timeout")
           => /\ syncState' = syncState
              /\ store' = store
              /\ bk.phase = "sent" => bk.req \in lost'
      /\ last'.op = "lostApply"
           => /\ syncState' = syncState
              /\ backups'.exists ]_vars

\* the backup timed out for the client, and yet the remote record holds the
\* snapshot while the client still counts it as never synced
C6_Witness ==
  /\ last.op = "lostApply"
  /\ backups.exists
  /\ backups.data = Blob(Fields, Snapshot)
  /\ transactions # << >>
  /\ syncState.lastSync = Null
  /\ syncState.unsyncedChanges

C8_CheckFailsSilently ==
  [][ ( \/ last'.op = "checkRespond" /\ last'.res # "found"
        \/ last'.op \in {"login", "sessionRestored"} /\ ~navOnline )
        => /\ last'.res \in {"", "none"}
           /\ chk' = "idle"
           /\ syncState'.pendingRestoreAvailable = syncState.pendingRestoreAvailable
           /\ syncState'.lastSync = syncState.lastSync
           /\ syncState'.unsyncedChanges = syncState.unsyncedChanges
           /\ Snapshot' = Snapshot
           /\ store' = store ]_vars

\* the fetch of the check failed although a record newer than lastSync exists
C8_Witness ==
  /\ last.op = "checkRespond" /\ last.res = "none"
  /\ backups.exists
  /\ syncState.lastSync = Null
  /\ ~syncState.pendingRestoreAvailable

\* C9: restore('skip') returns true and clears pendingRestoreAvailable; the
\* rest of the sync state, the snapshot, storage, the remote rows and the
\* pending requests are as before, on line or off, logged in or not.
C9_SkipOnlyClearsPending ==
  [][ (last'.op = "restoreStart" /\ last'.arg = "skip")
        => /\ last'.res = "true"
           /\ syncState' = [syncState EXCEPT !.pendingRestoreAvailable = FALSE]
           /\ Snapshot' = Snapshot
           /\ store' = store
           /\ remote' = remote
           /\ rs' = rs /\ bk' = bk /\ lost' = lost /\ chk' = chk ]_vars

\* skip was taken off line by a session that is logged out
C9_Witness ==
  /\ last.op = "restoreStart" /\ last.arg = "skip" /\ last.res = "true"
  /\ ~navOnline
  /\ ~syncState.isLoggedIn
  /\ ~syncState.pendingRestoreAvailable

\* C10 as stated: replace overwrites a field exactly when the remote record
\* has the field.
C10_ReplaceIffPresent ==
  [][ RestoreOk(last', "replace")
        => \A f \in Fields :
             Snapshot'[f] = IF f \in backups.data.has
                            THEN backups.data[f] ELSE Snapshot[f] ]_vars

\* C10 amended: replace overwrites a field exactly when the remote record has
\* the field with a value that is not falsy (a remote budget of 0 leaves the
\* local budget); every other field keeps its local value.
C10_ReplaceTruthyFields ==
  [][ RestoreOk(last', "replace")
        => \A f \in Fields :
             Snapshot'[f] = IF /\ f \in backups.data.has
                               /\ ~(f = "budget" /\ backups.data.budget = 0)
                            THEN backups.data[f] ELSE Snapshot[f] ]_vars

\* a replace from a record without accounts: the transactions are the
\* remote ones, the accounts the local ones
C10_Witness ==
  /\ RestoreOk(last, "replace")
  /\ backups.exists
  /\ "accounts" \notin backups.data.has
  /\ accounts = INITIAL_ACCOUNTS
  /\ transactions = backups.data.transactions
  /\ transactions # << >>

\* ids of a transaction list
IdsOf(txs) == {txs[i].id : i \in 1..Len(txs)}

\* C11: a successful merge appends exactly the remote transactions whose id
\* is not in the local list, keeps every local transaction as it was, and
\* leaves accounts, categories, settings, budget and categoryBudgets alone.
C11_MergeAppendsNewRemote ==
  [][ RestoreOk(last', "merge")
        => /\ transactions' =
                transactions \o SelectSeq(backups.data.transactions,
                                          LAMBDA t : t.id \notin IdsOf(transactions))
           /\ UNCHANGED << accounts, categories, settings, budget,
                           categoryBudgets >> ]_vars

\* C12: a merge called right after a merge that succeeded, with no edit, no
\* backup and no other restore since the first was called, appends nothing.
C12_MergeIdempotent ==
  [][ (RestoreOk(last', "merge") /\ last.run = "again")
        => transactions' = transactions ]_vars

\* the second merge of a run has succeeded, the first having brought the
\* remote transactions in
C12_Witness ==
  /\ RestoreOk(last, "merge")
  /\ last.run = "twice"
  /\ backups.exists
  /\ backups.data.transactions # << >>
  /\ IdsOf(backups.data.transactions) \subseteq IdsOf(transactions)

\* C13 as stated: a successful replace or merge sets lastSync to the
\* metadata timestamp of the remote record and clears both flags.
C13_RestoreSetsMetadataTime ==
  [][ (RestoreOk(last', "replace") \/ RestoreOk(last', "merge"))
        => /\ syncState'.lastSync = backups.metadata.timestamp
           /\ ~syncState'.pendingRestoreAvailable
           /\ ~syncState'.unsyncedChanges ]_vars

\* C13 amended: a successful replace or merge sets lastSync to the update
\* time of the remote record, which is what the fetch returns as the
\* metadata timestamp, and clears both flags.
C13_RestoreSetsUpdateTime ==
  [][ (RestoreOk(last', "replace") \/ RestoreOk(last', "merge"))
        => /\ syncState'.lastSync = backups.updated_at
           /\ ~syncState'.pendingRestoreAvailable
           /\ ~syncState'.unsyncedChanges ]_vars

\* a merge succeeded from a record whose update time is not the timestamp
\* stored in its metadata
C13_Witness ==
  /\ RestoreOk(last, "merge")
  /\ backups.exists
  /\ backups.updated_at # backups.metadata.timestamp
  /\ syncState.lastSync = backups.updated_at
  /\ ~syncState.pendingRestoreAvailable
  /\ ~syncState.unsyncedChanges

\* C14: a merge or replace called off line returns false, one that finds no
\* remote record returns false, and a merge or replace that does not succeed
\* leaves the local snapshot, lastSync, pendingRestoreAvailable and
\* unsyncedChanges as they were.
C14_FailedRestoreKeepsState ==
  [][ (last'.op \in {"restoreStart", "restoreRespond"}
       /\ last'.arg \in {"merge", "replace"})
        => /\ (last'.op = "restoreStart" /\ ~navOnline) => last'.res = "false"
           /\ (last'.op = "restoreRespond" /\ ~backups.exists) => last'.res = "false"
           /\ last'.res \in {"false", "threw"}
                => /\ Snapshot' = Snapshot
                   /\ syncState'.lastSync = syncState.lastSync
                   /\ syncState'.pendingRestoreAvailable
                        = syncState.pendingRestoreAvailable
                   /\ syncState'.unsyncedChanges = syncState.unsyncedChanges ]_vars

\* a restore was called off line by a logged-in user with unsynced edits:
\* it returned false and the edits are still marked
C14_Witness ==
  /\ last.op = "restoreStart"
  /\ last.arg \in {"merge", "replace"}
  /\ last.res = "false"
  /\ ~navOnline
  /\ syncState.user = TheUser
  /\ syncState.unsyncedChanges
  /\ transactions # << >>

\* a field of a stored snapshot that holds something: a list with elements,
\* a budget other than 0, the settings
NonEmpty(data, f) ==
  /\ f \in data.has
  /\ f \in {"transactions", "accounts", "categories", "categoryBudgets"}
       => data[f] # << >>
  /\ f = "budget" => data.budget # 0

\* C15: a replace that reads the record a backup of snapshot S wrote leaves
\* the local snapshot equal to S in every field of S that was not empty.
C15_BackupReplaceRoundTrip ==
  [][ RestoreOk(last', "replace")
        => \A f \in Fields :
             NonEmpty(backups.data, f) => Snapshot'[f] = backups.data[f] ]_vars

\* this session backed up a snapshot holding a transaction of its own and
\* then replaced from that record: every field is as it was backed up
C15_Witness ==
  /\ RestoreOk(last, "replace")
  /\ backups.exists
  /\ backups.data = Blob(Fields, Snapshot)
  /\ transactions # << >>
  /\ transactions[1].id \notin OtherIds
  /\ syncState.lastSync = backups.updated_at

\* ids of the wallet rows
WalletRowIds == {r.id : r \in walletRows}

\* C16: when the insert of the owner's membership has failed, createWallet
\* ends with an error, no wallet row of the call remains and the wallet is
\* not in the list of the session.
C16_CreateRollsBack ==
  [][ last'.op = "createWalletRollback"
        => /\ last'.res = "threw"
           /\ last'.arg \notin {r.id : r \in walletRows'}
           /\ wallets' = wallets
           /\ ~\E w \in wallets' : w.id = last'.arg ]_vars

\* C17: with no createWallet or deleteWallet under way, every wallet row
\* has exactly one membership with role owner, and it is its creator's.
C17_OneOwnerPerWallet ==
  (cw.phase = "idle" /\ dw.phase = "idle")
    => \A r \in walletRows :
         {m \in members : m.wallet_id = r.id /\ m.role = "owner"}
           = {Member(r.id, r.created_by, "owner")}

\* C18: deleteWallet deletes the memberships, then the data record, then the
\* wallet row; a failure of the first or the second delete does not keep
\* the next from being issued, and a failure of the last is thrown.
C18_DeleteOrder ==
  [][ /\ last'.op = "deleteWallet" /\ last'.res = "sent"
        => dw'.phase = "members" /\ UNCHANGED << members, walletData, walletRows >>
      /\ last'.op = "deleteWalletMembers"
        => /\ dw.phase = "members" /\ dw'.phase = "data"
           /\ UNCHANGED << walletData, walletRows >>
      /\ last'.op = "deleteWalletData"
        => /\ dw.phase = "data" /\ dw'.phase = "row"
           /\ UNCHANGED << members, walletRows >>
      /\ last'.op = "deleteWalletRow"
        => /\ dw.phase = "row" /\ dw'.phase = "idle"
           /\ UNCHANGED << members, walletData >>
           /\ last'.res = (IF last'.arg \in {r.id : r \in walletRows'}
                           THEN "threw" ELSE "ok") ]_vars

\* the wallet row was deleted although the delete of the memberships before
\* it had failed
C18_Witness ==
  /\ last.op = "deleteWalletRow"
  /\ last.res = "ok"
  /\ last.arg \notin WalletRowIds
  /\ \E m \in members : m.wallet_id = last.arg

\* C19: with no createWallet or deleteWallet under way, every membership
\* row is of a wallet row that exists.
C19_NoOrphanMembership ==
  (cw.phase = "idle" /\ dw.phase = "idle")
    => \A m \in members : m.wallet_id \in WalletRowIds

\* C20: a wallet is deleted and a member is invited only by a user who has
\* the owner membership of the wallet, and a membership that is removed is
\* never one with role owner.
C20_OwnerOnly ==
  [][ /\ (last'.op = "deleteWallet" /\ last'.res = "sent")
        => Member(last'.arg, syncState.user, "owner") \in members
      /\ (last'.op = "invite" /\ last'.res = "added")
        => Member(last'.arg, syncState.user, "owner") \in members
      /\ last'.op = "removeMember"
        => \A m \in members \ members' : m.role # "owner" ]_vars

\* C21: an invitation that fails leaves the members table as it was: the
\* e-mail of no registered user is answered "not found", a pair (wallet,
\* user) the table holds is answered "already a member", and no row is
\* written in either case; an invitation that succeeds writes one new row,
\* so the table never holds two rows for one (wallet, user)
C21_FailedInviteKeepsMembers ==
  [][ last'.op = "invite" =>
        /\ last'.res # "added" => members' = members
        /\ last'.res = "added" => Cardinality(members') = Cardinality(members) + 1
        /\ last'.res = "duplicate" =>
              \E m \in members : m.wallet_id = last'.arg
        /\ \A m1, m2 \in members' :
              m1.wallet_id = m2.wallet_id /\ m1.user_id = m2.user_id => m1 = m2
    ]_vars

\* an invitation of a user who is a member already has been refused
C21_Witness ==
  /\ last.op = "invite" /\ last.res = "duplicate"
  /\ \E m \in members : m.wallet_id = last.arg /\ m.role = "editor"

\* steps in which the row store performs an upsert of a backup
UpsertOps == {"serverApply", "lostApply", "otherSessionBackup", "autoApply"}

\* C22: however the backups of two sessions of one owner interleave, the
\* owner has one backup record once any upsert was performed, and it holds
\* the snapshot of the upsert performed last; the record changes by nothing
\* but an upsert, an upsert of the other session changes nothing in this
\* session, and a wallet has one data record, the one stored last
C22_LastUpsertWins ==
  [][ /\ last'.op = "serverApply" =>
            /\ backups'.exists
            /\ backups'.data = bk.req.data
            /\ backups'.metadata.timestamp = bk.req.clientTime
      /\ last'.op = "lostApply" =>
            /\ backups'.exists
            /\ \E r \in lost \ lost' :
                  /\ backups'.data = r.data
                  /\ backups'.metadata.timestamp = r.clientTime
      /\ last'.op = "otherSessionBackup" =>
            /\ backups'.exists
            /\ backups'.data \in OtherBlobs
            /\ UNCHANGED << working, syncState, store, bk, lost, ui >>
      /\ last'.op \notin UpsertOps => backups' = backups
      /\ last'.op = "otherMemberSync" =>
            /\ walletData'[last'.arg].exists
            /\ \A w \in WalletIds \ {last'.arg} : walletData'[w] = walletData[w]
      /\ last'.op # "otherMemberSync" => walletData' = walletData
    ]_vars

\* both sessions have backed up, this one was answered with success, and
\* the record holds the snapshot of the other
C22_Witness ==
  /\ last.op = "backupRespond" /\ last.res = "ok"
  /\ writes > 0
  /\ backups.exists
  /\ backups.data \in OtherBlobs
  /\ backups.data # Blob(Fields, Snapshot)
  /\ ~syncState.unsyncedChanges

\* backupUserData calls of the context that have not returned
BackupsInFlight == (IF bk.phase # "idle" THEN 1 ELSE 0) + Cardinality(ab)

\* restoreBackup calls of the context that have not returned
RestoresInFlight == Cardinality({c \in Callers : rs[c].phase = "sent"})

\* C23: within one session at most one backup and at most one restore are
\* under way at any time, manual backups, auto-backups and restores of the
\* restore prompt counted together
C23_OneInFlight ==
  /\ BackupsInFlight <= 1
  /\ RestoresInFlight <= 1

C26_SwitchWalletOverwrites ==
  [][ /\ last'.op = "switchRespond" /\ last'.res = "found" =>
            LET d == walletData[last'.arg].data
            IN /\ walletData[last'.arg].exists
               /\ transactions' = d.transactions
               /\ accounts' = d.accounts
               /\ categories' = d.categories
               /\ budget' = d.budget
               /\ settings' = settings
               /\ categoryBudgets' = categoryBudgets
      /\ last'.op = "switchRespond" /\ last'.res = "none" => UNCHANGED working
      /\ last'.op = "switchWallet" /\ last'.arg # Personal => UNCHANGED working
    ]_vars

\* a wallet without a data record was switched to and the transaction the
\* user had added before is still in the working set
C26_Witness ==
  /\ last.op = "switchRespond" /\ last.res = "none"
  /\ ~walletData[last.arg].exists
  /\ syncState.activeWalletId = last.arg
  /\ transactions # << >>

\* C27: a backup started while a shared wallet is the active one sends the
\* personal transactions, accounts, categories and budget of the owner,
\* those the working set held when the wallet was entered, to the owner's
\* backup record, and not those of the wallet
C27_BackupIsPersonal ==
  [][ /\ last'.op = "backupStart" /\ last'.res = "sent"
      /\ syncState.activeWalletId # Personal
      /\ baseline.known
      => /\ bk'.req.data.transactions = baseline.transactions
         /\ bk'.req.data.accounts = baseline.accounts
         /\ bk'.req.data.categories = baseline.categories
         /\ bk'.req.data.budget = baseline.budget
    ]_vars

\* C28: when a backup has succeeded and unsyncedChanges is false, the local
\* snapshot is the one that backup has stored; a mutation made while the
\* request was under way leaves unsyncedChanges true
C28_CleanMeansStored ==
  [][ /\ last'.op = "backupRespond" /\ last'.res = "ok"
      /\ ~syncState'.unsyncedChanges
      => Blob(Fields, Snapshot)' = bk.req.data
    ]_vars

\* C29: once no switchWallet call is waiting for its data any more, the
\* working set is that of the wallet named by activeWalletId: the record
\* put into the working set last is the record of the active wallet, and
\* no record is put into it while the personal data is active
C29_WorkingSetMatchesActive ==
  /\ last.op = "switchRespond" /\ last.res = "found"
  /\ sw = {}
  => syncState.activeWalletId = last.arg

\* logged in and on line with autoBackup daily or weekly, and no backup or
\* restore has ever succeeded on the device
WantsFirstAutoBackup ==
  /\ syncState.isLoggedIn
  /\ syncState.isOnline
  /\ settings.autoBackup \in {"daily", "weekly"}
  /\ syncState.lastSync = Null

\* C30: a user who is logged in and on line with autoBackup daily or weekly
\* and whose lastSync is null gets, for as long as that lasts, an unattended
\* backup in the end: the auto-backup effect calls backup
C30_FirstAutoBackup ==
  WantsFirstAutoBackup ~> (ab # {} \/ ~WantsFirstAutoBackup)

====
